---- MODULE Spec2Model ----
(***************************************************************************)
(* The chat front end of ask-my-github: the App component (transcript and  *)
(* processing flag, the two async handlers) together with the ChatInput    *)
(* component that forwards the user's intents to it, and the API client.   *)
(*                                                                         *)
(* One action per browser event: typing into an input, a click on Send or  *)
(* Index, Enter in the question input, the settling of an HTTP call, the   *)
(* resumption of the awaiting handler, and a tick of the millisecond clock.*)
(* Strings are sequences of one-character strings; a string literal of the *)
(* source is a single token of such a sequence.                            *)
(***************************************************************************)
EXTENDS Integers, Sequences, FiniteSets

VARIABLES
    messages,      \* App: useState<Message[]>([])
    isProcessing,  \* App: useState(false)
    message,       \* ChatInput: useState('')  (the question input)
    repoUrl,       \* ChatInput: useState('')  (the repository input)
    calls,         \* handler invocations suspended at their await
    now,           \* the reading Date.now() returns
    accepted       \* how many times each App handler went past its guards

vars == <<messages, isProcessing, message, repoUrl, calls, now, accepted>>

-----------------------------------------------------------------------------
(* Bounds *)

MaxOps == 2        \* operations accepted in one run
MaxClock == 10     \* last clock reading

(* Program constants *)

TopK == 3

-----------------------------------------------------------------------------
(* Strings *)

Whitespace == {" "}

\* the texts typed into the inputs: empty, whitespace only, plain, padded
Texts == {<<>>, <<" ">>, <<"a">>, <<" ", "a", " ">>}

\* the value of a missing property
Undefined == <<"#undefined">>

RECURSIVE TrimStart(_)
TrimStart(s) ==
    IF s = <<>> THEN s
    ELSE IF Head(s) \in Whitespace THEN TrimStart(Tail(s)) ELSE s

RECURSIVE TrimEnd(_)
TrimEnd(s) ==
    IF s = <<>> THEN s
    ELSE IF s[Len(s)] \in Whitespace THEN TrimEnd(SubSeq(s, 1, Len(s) - 1)) ELSE s

\* String.prototype.trim
Trim(s) == TrimEnd(TrimStart(s))

\* a string in a boolean context
Truthy(s) == s # <<>>

DigitChars == <<"0", "1", "2", "3", "4", "5", "6", "7", "8", "9">>

\* Number.prototype.toString on a non-negative integer
RECURSIVE ToString(_)
ToString(n) ==
    IF n < 10 THEN <<DigitChars[n + 1]>>
    ELSE ToString(n \div 10) \o <<DigitChars[(n % 10) + 1]>>

-----------------------------------------------------------------------------
(* Types *)

\* chunks?: Chunk[]
NoChunks == [present |-> FALSE, items |-> <<>>]
SomeChunks(cs) == [present |-> TRUE, items |-> cs]

Chunk == [text |-> <<"f">>, file_path |-> <<"m">>]

\* the ways a call settles
Pending == [state |-> "pending", body |-> "none", error |-> "none", answer |-> Undefined, chunks |-> NoChunks]
Rejected(e) == [state |-> "rejected", body |-> "none", error |-> e, answer |-> Undefined, chunks |-> NoChunks]
\* a 2xx response whose body is the JSON value null
FulfilledNull == [state |-> "fulfilled", body |-> "null", error |-> "none", answer |-> Undefined, chunks |-> NoChunks]
\* a 2xx response whose body has neither answer nor chunks
FulfilledOther == [state |-> "fulfilled", body |-> "object", error |-> "none", answer |-> Undefined, chunks |-> NoChunks]
FulfilledQuery(a, cs) == [state |-> "fulfilled", body |-> "object", error |-> "none", answer |-> a, chunks |-> SomeChunks(cs)]

\* the responses of the shape QueryResponse declares
QueryResponses == {FulfilledQuery(<<"x">>, <<>>), FulfilledQuery(<<"y">>, <<Chunk>>)}

\* axios.post rejects on a network error and on a status outside 2xx
AxiosErrors == {Rejected("network"), Rejected("status")}

-----------------------------------------------------------------------------
(* services/api.ts *)

\* api.queryRepository: the promise of axios.post(...).data, unvalidated
QueryOutcomes == QueryResponses \cup {FulfilledOther, FulfilledNull} \cup AxiosErrors

\* api.indexRepository
IndexOutcomes == {FulfilledOther} \cup AxiosErrors

-----------------------------------------------------------------------------
(* App *)

\* faulty variant: the new message is put first
addMessage_prepend(prev, m) ==
    <<[id |-> ToString(now), content |-> m.content, sender |-> m.sender,
       timestamp |-> now, chunks |-> m.chunks]>> \o prev

\* addMessage
addMessage(prev, m) ==
    Append(prev, [id |-> ToString(now), content |-> m.content, sender |-> m.sender,
                  timestamp |-> now, chunks |-> m.chunks])

NextCallId == accepted.send + accepted.index + 1

QueryRequest(content, url) == [question |-> content, repo_url |-> url, top_k |-> <<TopK>>]
IndexRequest(url) == [question |-> Undefined, repo_url |-> url, top_k |-> <<>>]

\* faulty variant: the user's message is not recorded before the call
App_handleSendMessage_noUserTurn(content, url) ==
    /\ messages' = messages
    /\ isProcessing' = TRUE
    /\ calls' = calls \cup {[id |-> NextCallId, op |-> "query",
                             req |-> QueryRequest(content, url), res |-> Pending]}
    /\ accepted' = [accepted EXCEPT !.send = @ + 1]

\* handleSendMessage, up to its await
App_handleSendMessage(content, url) ==
    /\ messages' = addMessage(messages, [content |-> content, sender |-> "user", chunks |-> NoChunks])
    /\ isProcessing' = TRUE
    /\ calls' = calls \cup {[id |-> NextCallId, op |-> "query",
                             req |-> QueryRequest(content, url), res |-> Pending]}
    /\ accepted' = [accepted EXCEPT !.send = @ + 1]

\* handleIndexRepository, up to its await
App_handleIndexRepository(url) ==
    IF ~Truthy(url)
    THEN UNCHANGED <<messages, isProcessing, calls, accepted>>
    ELSE /\ isProcessing' = TRUE
         /\ calls' = calls \cup {[id |-> NextCallId, op |-> "index",
                                  req |-> IndexRequest(url), res |-> Pending]}
         /\ accepted' = [accepted EXCEPT !.index = @ + 1]
         /\ UNCHANGED messages

\* faulty variant: the chunks of the response are dropped
BotMessage_noChunks(res) == [content |-> res.answer, sender |-> "bot", chunks |-> NoChunks]

BotMessage(res) == [content |-> res.answer, sender |-> "bot", chunks |-> res.chunks]
QueryErrorMessage ==
    [content |-> <<"Sorry, I encountered an error processing your request.">>,
     sender |-> "bot", chunks |-> NoChunks]
\* faulty variant: the confirmation does not name the repository
IndexSuccessMessage_noUrl(url) ==
    [content |-> <<"Successfully indexed repository: ">>,
     sender |-> "bot", chunks |-> NoChunks]

IndexSuccessMessage(url) ==
    [content |-> <<"Successfully indexed repository: ">> \o url,
     sender |-> "bot", chunks |-> NoChunks]
IndexErrorMessage ==
    [content |-> <<"Failed to index repository. Please check the URL and try again.">>,
     sender |-> "bot", chunks |-> NoChunks]

\* does the try block run to its end
TryCompletes(c) ==
    /\ c.res.state = "fulfilled"
    /\ c.op = "query" => c.res.body # "null"

\* faulty variant: the flag is cleared at the end of the try block, not in finally
App_resumeSendMessage_noFinally(c) ==
    /\ messages' = IF TryCompletes(c) THEN addMessage(messages, BotMessage(c.res))
                   ELSE addMessage(messages, QueryErrorMessage)
    /\ isProcessing' = ~TryCompletes(c)

\* handleSendMessage after its await: try / catch / finally
App_resumeSendMessage(c) ==
    /\ messages' = IF TryCompletes(c) THEN addMessage(messages, BotMessage(c.res))
                   ELSE addMessage(messages, QueryErrorMessage)
    /\ isProcessing' = FALSE

\* handleIndexRepository after its await: try / catch / finally
App_resumeIndexRepository(c) ==
    /\ messages' = IF TryCompletes(c) THEN addMessage(messages, IndexSuccessMessage(c.req.repo_url))
                   ELSE addMessage(messages, IndexErrorMessage)
    /\ isProcessing' = FALSE

-----------------------------------------------------------------------------
(* ChatInput *)

isFormValid == Len(Trim(message)) > 0 /\ Len(Trim(repoUrl)) > 0
isRepoUrlValid == Len(Trim(repoUrl)) > 0

\* which controls take events
RepoInputEnabled == ~isProcessing
\* faulty variant: the Index button is not put in its loading state
IndexButtonEnabled_notLoading == isRepoUrlValid

IndexButtonEnabled == ~isProcessing /\ isRepoUrlValid
QuestionInputEnabled == ~(isProcessing \/ ~isRepoUrlValid)
\* faulty variant: the Send button is not put in its loading state
SendButtonEnabled_notLoading == isFormValid

SendButtonEnabled == ~isProcessing /\ isFormValid

\* faulty variant: the texts are tested without trimming
SendGuard_untrimmed == Truthy(message) /\ Truthy(repoUrl)

SendGuard == Truthy(Trim(message)) /\ Truthy(Trim(repoUrl))
IndexGuard == Truthy(Trim(repoUrl))

\* ChatInput.handleSendMessage
ChatInput_handleSendMessage ==
    IF SendGuard
    THEN /\ App_handleSendMessage(message, repoUrl)
         /\ message' = <<>>
    ELSE UNCHANGED <<messages, isProcessing, calls, accepted, message>>

\* ChatInput.handleIndexClick
ChatInput_handleIndexClick ==
    /\ IF IndexGuard
       THEN App_handleIndexRepository(repoUrl)
       ELSE UNCHANGED <<messages, isProcessing, calls, accepted>>
    /\ UNCHANGED message

-----------------------------------------------------------------------------
(* Events *)

\* a settled call resumes its handler before the next event is taken
MicrotaskPending == \E c \in calls : c.res.state # "pending"
OpsLeft == accepted.send + accepted.index < MaxOps

TypeRepoUrl(s) ==
    /\ ~MicrotaskPending
    /\ RepoInputEnabled
    /\ repoUrl' = s
    /\ UNCHANGED <<messages, isProcessing, message, calls, now, accepted>>

TypeMessage(s) ==
    /\ ~MicrotaskPending
    /\ QuestionInputEnabled
    /\ message' = s
    /\ UNCHANGED <<messages, isProcessing, repoUrl, calls, now, accepted>>

ClickSend ==
    /\ ~MicrotaskPending
    /\ OpsLeft
    /\ IF SendButtonEnabled THEN ChatInput_handleSendMessage
       ELSE UNCHANGED <<messages, isProcessing, calls, accepted, message>>
    /\ UNCHANGED <<repoUrl, now>>

EnterKey ==
    /\ ~MicrotaskPending
    /\ OpsLeft
    /\ IF QuestionInputEnabled THEN ChatInput_handleSendMessage
       ELSE UNCHANGED <<messages, isProcessing, calls, accepted, message>>
    /\ UNCHANGED <<repoUrl, now>>

ClickIndex ==
    /\ ~MicrotaskPending
    /\ OpsLeft
    /\ IF IndexButtonEnabled THEN ChatInput_handleIndexClick
       ELSE UNCHANGED <<messages, isProcessing, calls, accepted, message>>
    /\ UNCHANGED <<repoUrl, now>>

Settle(c, o) ==
    /\ ~MicrotaskPending
    /\ c.res.state = "pending"
    /\ calls' = (calls \ {c}) \cup {[c EXCEPT !.res = o]}
    /\ UNCHANGED <<messages, isProcessing, message, repoUrl, now, accepted>>

Resume(c) ==
    /\ c.res.state # "pending"
    /\ IF c.op = "query" THEN App_resumeSendMessage(c) ELSE App_resumeIndexRepository(c)
    /\ calls' = calls \ {c}
    /\ UNCHANGED <<message, repoUrl, now, accepted>>

Tick ==
    /\ now < MaxClock
    /\ now' = now + 1
    /\ UNCHANGED <<messages, isProcessing, message, repoUrl, calls, accepted>>

Init ==
    /\ messages = <<>>
    /\ isProcessing = FALSE
    /\ message = <<>>
    /\ repoUrl = <<>>
    /\ calls = {}
    /\ now = 9
    /\ accepted = [send |-> 0, index |-> 0]

Next ==
    \/ \E s \in Texts : TypeRepoUrl(s)
    \/ \E s \in Texts : TypeMessage(s)
    \/ ClickSend
    \/ EnterKey
    \/ ClickIndex
    \/ \E c \in calls : \E o \in (IF c.op = "query" THEN QueryOutcomes ELSE IndexOutcomes) : Settle(c, o)
    \/ \E c \in calls : Resume(c)
    \/ Tick

Spec == Init /\ [][Next]_vars

-----------------------------------------------------------------------------
(* Properties *)

Last(s) == s[Len(s)]
IsPrefix(s, t) == Len(s) <= Len(t) /\ SubSeq(t, 1, Len(s)) = s
Contains(s, sub) == \E i \in 0..(Len(s) - Len(sub)) : SubSeq(s, i + 1, i + Len(sub)) = sub
IsBlank(s) == \A i \in 1..Len(s) : s[i] \in Whitespace
Total == accepted.send + accepted.index
\* the call c is no longer awaited after the step
Gone(c) == \A d \in calls' : d.id # c.id
\* the step appends exactly one turn
AppendsOne == Len(messages') = Len(messages) + 1 /\ IsPrefix(messages, messages')

SendIntent == ClickSend \/ EnterKey
IndexIntent == ClickIndex

\* C1: an intent (a click on Send, Enter in the question input, a click on
\* Index) that arrives while the processing flag is set appends no turn,
\* issues no call and leaves the flag as it was.
C1_BusyRejects ==
    [][((SendIntent \/ IndexIntent) /\ isProcessing)
        => UNCHANGED <<messages, calls, isProcessing>>]_vars

\* a call is in flight while both inputs hold valid text: a Send or Index
\* intent arriving here is one that only the flag turns away
C1_Witness ==
    /\ isProcessing /\ isFormValid
    /\ OpsLeft /\ ~MicrotaskPending
    /\ \E c \in calls : c.op = "index" /\ c.res.state = "pending"

\* C2: at most one remote call (query or index) is outstanding at any time.
C2_AtMostOneCall == Cardinality(calls) <= 1

\* a second operation is in flight after the first has resolved
C2_Witness == Cardinality(calls) = 1 /\ Total = 2 /\ Len(messages) >= 1

\* C3: the flag is set exactly while an accepted operation's call is
\* outstanding: it rises in the step that accepts an operation (and in no
\* other), falls in the step in which that operation's handler resumes, on
\* the success path and on the failure path, and is clear whenever nothing
\* is outstanding.
C3_BusyLifecycle ==
    /\ [](isProcessing <=> calls # {})
    /\ [][/\ (Total' # Total) <=> (~isProcessing /\ isProcessing')
          /\ (~isProcessing /\ isProcessing') => (Total' = Total + 1 /\ Cardinality(calls') = 1)
          /\ (isProcessing /\ ~isProcessing') =>
                \E c \in calls : c.res.state # "pending" /\ calls' = calls \ {c}
          /\ (\E c \in calls : Gone(c)) => (isProcessing /\ ~isProcessing')]_vars

\* a question whose call failed and an indexing have both resolved
C3_Witness ==
    /\ ~isProcessing /\ calls = {}
    /\ accepted.send = 1 /\ accepted.index = 1
    /\ \E i \in 1..Len(messages) : messages[i].content = QueryErrorMessage.content

\* C4: every step leaves the transcript as it was or extends it at the end;
\* and when no operation is outstanding its length is twice the number of
\* accepted questions plus the number of accepted indexings.
C4_AppendOnly ==
    /\ [][IsPrefix(messages, messages')]_vars
    /\ [](calls = {} => Len(messages) = 2 * accepted.send + accepted.index)

\* one question and one indexing have resolved
C4_Witness ==
    /\ calls = {}
    /\ accepted.send = 1 /\ accepted.index = 1
    /\ Len(messages) = 3

\* C5: an accepted question appends a user turn holding the question and
\* issues the query with that question, that repository and top_k = 3; the
\* user turn stays last while the call is awaited; when the call returns a
\* well-formed response the handler appends one assistant turn holding the
\* returned answer and the returned chunks.
C5_QuerySuccess ==
    /\ [][/\ (accepted.send' = accepted.send + 1) =>
                /\ AppendsOne
                /\ Last(messages').sender = "user"
                /\ Last(messages').content = message
                /\ \E c \in calls' \ calls :
                      /\ c.op = "query" /\ c.res.state = "pending"
                      /\ c.req.question = message
                      /\ c.req.repo_url = repoUrl
                      /\ c.req.top_k = <<3>>
          /\ \A c \in calls : (c.op = "query" /\ c.res \in QueryResponses /\ Gone(c)) =>
                /\ Len(messages) > 0
                /\ Last(messages).sender = "user"
                /\ Last(messages).content = c.req.question
                /\ AppendsOne
                /\ Last(messages').sender = "bot"
                /\ Last(messages').content = c.res.answer
                /\ Last(messages').chunks = c.res.chunks
                /\ c.res.chunks.present]_vars
    /\ [](\A c \in calls : c.op = "query" =>
                /\ Len(messages) > 0
                /\ Last(messages).sender = "user"
                /\ Last(messages).content = c.req.question)

\* a question was answered with one chunk
C5_Witness ==
    /\ Len(messages) = 2 /\ calls = {}
    /\ messages[1].sender = "user" /\ messages[1].content = <<" ", "a", " ">>
    /\ messages[2].sender = "bot" /\ messages[2].content = <<"y">>
    /\ messages[2].chunks = SomeChunks(<<Chunk>>)

\* C6: when the call of an accepted question fails in any way (network
\* error, non-success status, or a response that is not of the declared
\* shape) the handler appends exactly one assistant turn with the fixed
\* fallback content and no chunks, and clears the flag.
C6_QueryFailureFallback ==
    [][\A c \in calls :
          (c.op = "query" /\ c.res.state # "pending" /\ c.res \notin QueryResponses /\ Gone(c)) =>
              /\ AppendsOne
              /\ Last(messages').sender = "bot"
              /\ Last(messages').content = QueryErrorMessage.content
              /\ ~Last(messages').chunks.present
              /\ ~isProcessing']_vars

\* C7: a Send intent whose question or repository text is empty or
\* whitespace only, and an Index intent whose repository text is, issues no
\* call and changes neither the transcript nor the flag.
C7_BlankRejected ==
    [][(\/ SendIntent /\ (IsBlank(message) \/ IsBlank(repoUrl))
        \/ IndexIntent /\ IsBlank(repoUrl))
        => UNCHANGED <<messages, calls, isProcessing>>]_vars

\* the question input takes Enter while it holds whitespace only: the text
\* reaches the handler's own test
C7_Witness ==
    /\ QuestionInputEnabled
    /\ message # <<>> /\ IsBlank(message)
    /\ OpsLeft /\ ~MicrotaskPending

\* C8: an accepted indexing appends nothing when it is accepted and nothing
\* while its call is awaited; when its handler resumes it appends exactly
\* one turn, an assistant turn without chunks, whose content contains the
\* repository text if the call succeeded.
C8_IndexOneTurn ==
    [][/\ (accepted.index' = accepted.index + 1) =>
             /\ messages' = messages
             /\ \E c \in calls' \ calls :
                   c.op = "index" /\ c.res.state = "pending" /\ c.req.repo_url = repoUrl
       /\ \A c \in calls : c.op = "index" =>
             IF Gone(c)
             THEN /\ c.res.state # "pending"
                  /\ AppendsOne
                  /\ Last(messages').sender = "bot"
                  /\ ~Last(messages').chunks.present
                  /\ c.res.state = "fulfilled" => Contains(Last(messages').content, c.req.repo_url)
             ELSE messages' = messages]_vars

\* an indexing of a padded repository text has succeeded
C8_Witness ==
    /\ Len(messages) = 1 /\ calls = {}
    /\ accepted.index = 1 /\ accepted.send = 0
    /\ messages[1].sender = "bot"
    /\ Contains(messages[1].content, <<" ", "a", " ">>)

\* C9: while a question's call is awaited its user turn is the last turn of
\* the transcript, the only step that changes the transcript then is the
\* resumption of that question's handler, which appends one assistant turn;
\* so every user turn is either last, with its call awaited, or directly
\* followed by an assistant turn.
C9_TurnOrder ==
    /\ [](\A i \in 1..Len(messages) : messages[i].sender = "user" =>
             IF i = Len(messages)
             THEN \E c \in calls : c.op = "query" /\ c.req.question = messages[i].content
             ELSE messages[i + 1].sender = "bot")
    /\ [][\A c \in calls : c.op = "query" =>
             /\ Len(messages) > 0
             /\ Last(messages).sender = "user"
             /\ Last(messages).content = c.req.question
             /\ (messages' # messages) =>
                   /\ Gone(c)
                   /\ AppendsOne
                   /\ Last(messages').sender = "bot"]_vars

\* two questions were asked and answered one after the other
C9_Witness ==
    /\ Len(messages) = 4 /\ calls = {}
    /\ messages[1].sender = "user" /\ messages[2].sender = "bot"
    /\ messages[3].sender = "user" /\ messages[4].sender = "bot"
    /\ messages[1].content # messages[3].content

\* C10: any two distinct turns of the transcript have different ids,
\* whatever the clock read when they were appended.
C10_UniqueIds ==
    \A i, j \in 1..Len(messages) : i # j => messages[i].id # messages[j].id

====
